---- MODULE Spec2Model ----
(***************************************************************************)
(* Model of the cheat-sheet command line tool (main.go, cmd.go): one run   *)
(* of the process, from the parsed flag set to the exit, over a file       *)
(* system holding the personal cheat-sheet directory and the tldr cache.   *)
(***************************************************************************)
EXTENDS Integers, Sequences, FiniteSets, TLC

\* ---------------------------------------------------------------- bounds
MaxArgs == 2        \* positional arguments left after flag parsing
MaxExit == 4        \* subprocess exit codes 0..MaxExit

Tokens == {"git", "foo"}

\* ------------------------------------------------------------- constants
NotFoundExit == 3

CheatSheetsDir == "home/.cheat-sheet"
TldrCachePath == "home/.tldr/cache/pages"
pages == <<"common", "linux">>

NoErr == "nil"

\* filepath.Join of a directory and one element
Join(dir, name) == dir \o "/" \o name

Names == {t \o ".md" : t \in Tokens}

ArgSeqs == UNION {[1..n -> Tokens] : n \in 0..MaxArgs}

\* the flag set after a successful fs.Parse
FlagSets == [h : BOOLEAN, v : BOOLEAN, u : BOOLEAN, log : BOOLEAN,
             e : Tokens \cup {""}, args : ArgSeqs]

\* a directory of the file system: absent, unreadable, or listing files
DirStates == {[status |-> "absent", files |-> {}],
              [status |-> "unreadable", files |-> {}]}
             \cup {[status |-> "ok", files |-> S] : S \in SUBSET Names}

\* ------------------------------------------------------------ Command
NewCommand(type_, arg, log) == [Cmd |-> type_, Arg |-> arg, log |-> log]

Panicked == NewCommand("panic", "", FALSE)

NoCommand == NewCommand("none", "", FALSE)

FindTopic(fs) == IF Len(fs.args) = 0 THEN Panicked
                 ELSE NewCommand("find", fs.args[1], fs.log)

CreateCommand(fs) ==
    IF fs.h THEN NewCommand("help", "", fs.log)
    ELSE IF fs.v THEN NewCommand("version", "", fs.log)
    ELSE IF fs.u THEN NewCommand("update", "", fs.log)
    ELSE IF fs.e # "" THEN NewCommand("edit", fs.e, fs.log)
    ELSE FindTopic(fs)

PrintLog(c) == c.log

Filename(c) == c.Arg \o ".md"

\* ------------------------------------------------------- Tldr adapter
\* outcome of running a subprocess: it did not start, or it exited
Outcomes == {[started |-> FALSE, code |-> 0]}
            \cup {[started |-> TRUE, code |-> c] : c \in 0..MaxExit}

ExitErr(o) == IF o.started THEN "exit status" ELSE "exec: not started"

\* Tldr.run without the exit code 3 case
run_strict(o) == IF o.started /\ o.code = 0 THEN NoErr ELSE ExitErr(o)

\* Tldr.run: the error returned for a subprocess outcome
run(o) ==
    IF o.started /\ o.code = 0 THEN NoErr
    ELSE IF o.started /\ o.code = NotFoundExit THEN NoErr
    ELSE ExitErr(o)

TldrFindArgs(name) == <<name>>
TldrRenderArgs(path) == <<"--render", path>>
TldrUpdateArgs == <<"--update">>

\* Tldr.Version and editCmd.Run: no exit code is special
plainRun(o) == IF o.started /\ o.code = 0 THEN NoErr ELSE ExitErr(o)

\* ------------------------------------------------------- file helpers
\* FindFileInDir: <<hasFound, err>> for a directory state
FindFileInDir(filename, d) ==
    IF d.status = "absent" THEN <<FALSE, "open: no such file or directory">>
    ELSE IF d.status = "unreadable" THEN <<FALSE, "open: permission denied">>
    ELSE <<filename \in d.files, NoErr>>

\* Tldr.FindFileInCache from the i-th page on: <<dirname, err>>
RECURSIVE CacheFrom(_, _, _)
CacheFrom(filename, c, i) ==
    IF i > Len(pages) THEN <<"", NoErr>>
    ELSE LET r == FindFileInDir(filename, c[pages[i]])
         IN  IF r[2] # NoErr THEN <<"", r[2]>>
             ELSE IF r[1] THEN <<Join(TldrCachePath, pages[i]), NoErr>>
             ELSE CacheFrom(filename, c, i + 1)

FindFileInCache(filename, c) == CacheFrom(filename, c, 1)

\* CopyFile: what can happen, the error returned, the destination afterwards
CopyOutcomes == {"copied", "open-src", "create-dest", "io"}

CopyErr(k) == IF k = "copied" THEN NoErr ELSE "copy: " \o k

CopyDest(k, srcContent, old) ==
    IF k = "copied" THEN srcContent
    ELSE IF k = "io" THEN "partial"
    ELSE old

\* --------------------------------------------------------------- state
VARIABLES
    rawEmpty,   \* os.Args[1:] is empty
    fs,         \* the flag set after fs.Parse
    cmd,        \* the Command built by CreateCommand
    localOk,    \* the cheat-sheet directory can be opened and listed
    content,    \* content of each file of the cheat-sheet directory
    cache,      \* the tldr cache: a directory state for each page set
    pc,         \* position of the run
    calls,      \* file, subprocess and editor calls made so far, in order
    err,        \* the error Run returned
    stdout      \* what main and the executor printed

vars == <<rawEmpty, fs, cmd, localOk, content, cache, pc, calls, err, stdout>>

DefaultFlagSet == [h |-> FALSE, v |-> FALSE, u |-> FALSE, log |-> FALSE,
                   e |-> "", args |-> <<>>]

Absent == "none"

Config == [CheatSheetsDir |-> CheatSheetsDir, TldrPath |-> "tldr",
           TldrCachePath |-> TldrCachePath, EditorPath |-> "vim"]

\* the cheat-sheet directory as FindFileInDir sees it
LocalDir ==
    [status |-> IF localOk THEN "ok" ELSE "unreadable",
     files  |-> IF localOk THEN {n \in Names : content[n] # Absent} ELSE {}]

NoProc == [started |-> FALSE, code |-> -1]

Call(by, op, args, ret, e, oc) ==
    [by |-> by, op |-> op, args |-> args, ret |-> ret, err |-> e, oc |-> oc]

Bool(b) == IF b THEN "true" ELSE "false"

DirCall(by, filename, dirname, d) ==
    LET r == FindFileInDir(filename, d)
    IN  Call(by, "FindFileInDir", <<filename, dirname>>, Bool(r[1]), r[2], NoProc)

\* the FindFileInDir calls FindFileInCache makes from the i-th page on
RECURSIVE CacheCalls(_, _, _)
CacheCalls(filename, c, i) ==
    IF i > Len(pages) THEN <<>>
    ELSE LET r == FindFileInDir(filename, c[pages[i]])
             this == DirCall("FindFileInCache", filename,
                             Join(TldrCachePath, pages[i]), c[pages[i]])
         IN  IF r[2] # NoErr \/ r[1] THEN <<this>>
             ELSE <<this>> \o CacheCalls(filename, c, i + 1)

Init ==
    /\ rawEmpty \in BOOLEAN
    /\ fs \in FlagSets
    /\ rawEmpty => fs = DefaultFlagSet
    /\ cmd = NoCommand
    /\ localOk \in BOOLEAN
    /\ content \in [Names -> {Absent, "personal"}]
    /\ cache \in [{pages[i] : i \in 1..Len(pages)} -> DirStates]
    /\ pc = "start"
    /\ calls = <<>>
    /\ err = NoErr
    /\ stdout = <<>>

\* main prints the error Run returned and the process exits
Finish(e, cs) ==
    /\ pc' = "done"
    /\ err' = e
    /\ calls' = cs
    /\ stdout' = IF e # NoErr THEN Append(stdout, "error ocurred") ELSE stdout

\* fs.Parse fails: main prints the error and returns
ParseError ==
    /\ pc = "start"
    /\ ~rawEmpty
    /\ Finish("flag: parse error", calls)
    /\ UNCHANGED <<rawEmpty, fs, cmd, localOk, content, cache>>

\* CreateCommand indexes fs.Args() out of range: the process panics
CreatePanic ==
    /\ pc = "start"
    /\ CreateCommand(fs) = Panicked
    /\ pc' = "panic"
    /\ UNCHANGED <<rawEmpty, fs, cmd, localOk, content, cache, calls, err, stdout>>

\* DefaultConfig fails: Run returns the error before any command executes
ConfigError ==
    /\ pc = "start"
    /\ CreateCommand(fs) # Panicked
    /\ cmd' = CreateCommand(fs)
    /\ Finish("config: home directory", calls)
    /\ UNCHANGED <<rawEmpty, fs, localOk, content, cache>>

\* Run builds the command and the configuration; Exec picks the handler
Exec ==
    /\ pc = "start"
    /\ CreateCommand(fs) # Panicked
    /\ cmd' = CreateCommand(fs)
    /\ pc' = cmd'.Cmd
    /\ UNCHANGED <<rawEmpty, fs, localOk, content, cache, calls, err, stdout>>

PrintHelp ==
    /\ pc = "help"
    /\ pc' = "done"
    /\ stdout' = Append(stdout, "usage")
    /\ UNCHANGED <<rawEmpty, fs, cmd, localOk, content, cache, calls, err>>

PrintVersion ==
    /\ pc = "version"
    /\ \E o \in Outcomes :
         LET e == plainRun(o)
             c == Call("PrintVersion", "tldr", <<"--version">>, "", e, o)
         IN  /\ pc' = "done"
             /\ err' = e
             /\ calls' = Append(calls, c)
             /\ stdout' = Append(stdout, IF e = NoErr THEN "version"
                                         ELSE "error ocurred")
    /\ UNCHANGED <<rawEmpty, fs, cmd, localOk, content, cache>>

Update ==
    /\ pc = "update"
    /\ \E o \in Outcomes :
         Finish(run(o), Append(calls,
                Call("Update", "tldr", TldrUpdateArgs, "", run(o), o)))
    /\ UNCHANGED <<rawEmpty, fs, cmd, localOk, content, cache>>

\* Find handing the file name to the external find verb
FindName_file(c) == Filename(c)

\* the argument Find hands to the external find verb
FindName(c) == c.Arg

\* the external call Find makes once the local lookup has answered
FindArgs(hasFound, c) ==
    IF hasFound THEN TldrRenderArgs(Join(Config.CheatSheetsDir, Filename(c)))
    ELSE TldrFindArgs(FindName(c))

Find ==
    /\ pc = "find"
    /\ LET look == DirCall("Find", Filename(cmd), Config.CheatSheetsDir, LocalDir)
           r == FindFileInDir(Filename(cmd), LocalDir)
       IN  IF r[2] # NoErr
           THEN Finish(r[2], Append(calls, look))
           ELSE \E o \in Outcomes :
                  Finish(run(o), calls \o <<look,
                         Call("Find", "tldr", FindArgs(r[1], cmd), "", run(o), o)>>)
    /\ UNCHANGED <<rawEmpty, fs, cmd, localOk, content, cache>>

\* Edit consulting the cache whatever the local lookup found
EditsDirectly_never(hasFound) == FALSE

\* Edit goes straight to the editor when the local lookup found the file
EditsDirectly(hasFound) == hasFound

\* Edit carrying on after a failed CopyFile
CopyAborts_never(e) == FALSE

\* a failed CopyFile ends Edit
CopyAborts(e) == e # NoErr

\* the page set a cache directory belongs to
PageOf(dirname) ==
    CHOOSE p \in {pages[i] : i \in 1..Len(pages)} : Join(TldrCachePath, p) = dirname

\* Executor.Edit up to the call of editLocalCheatSheet
Edit ==
    /\ pc = "edit"
    /\ LET fn == Filename(cmd)
           r == FindFileInDir(fn, LocalDir)
           look == DirCall("Edit", fn, Config.CheatSheetsDir, LocalDir)
           cl == FindFileInCache(fn, cache)
           located == CacheCalls(fn, cache, 1)
                      \o <<Call("Edit", "FindFileInCache", <<fn>>, cl[1], cl[2], NoProc)>>
       IN  IF r[2] # NoErr
           THEN Finish(r[2], Append(calls, look)) /\ UNCHANGED content
           ELSE IF EditsDirectly(r[1])
           THEN /\ pc' = "editor"
                /\ calls' = Append(calls, look)
                /\ UNCHANGED <<content, err, stdout>>
           ELSE IF cl[2] # NoErr
           THEN Finish(cl[2], (calls \o <<look>>) \o located) /\ UNCHANGED content
           ELSE IF cl[1] = ""
           THEN /\ pc' = "editor"
                /\ calls' = (calls \o <<look>>) \o located
                /\ UNCHANGED <<content, err, stdout>>
           ELSE \E k \in CopyOutcomes :
                  LET src == Join(cl[1], fn)
                      dest == Join(Config.CheatSheetsDir, fn)
                      copy == Call("Edit", "CopyFile", <<src, dest>>, "",
                                   CopyErr(k), NoProc)
                      cs == ((calls \o <<look>>) \o located) \o <<copy>>
                  IN  /\ content' = [content EXCEPT
                                       ![fn] = CopyDest(k, PageOf(cl[1]), @)]
                      /\ IF CopyAborts(CopyErr(k))
                         THEN Finish(CopyErr(k), cs)
                         ELSE /\ pc' = "editor"
                              /\ calls' = cs
                              /\ UNCHANGED <<err, stdout>>
    /\ UNCHANGED <<rawEmpty, fs, cmd, localOk, cache>>

\* editLocalCheatSheet rendering whatever the editor returned
EditorThen_always(e) == "find"

\* where editLocalCheatSheet goes once the editor has returned
EditorThen(e) == IF e # NoErr THEN "done" ELSE "find"

\* Executor.editLocalCheatSheet up to the call of Find: the editor runs on
\* the local path, and the user may save the file from it
editLocalCheatSheet ==
    /\ pc = "editor"
    /\ \E o \in Outcomes, saved \in BOOLEAN :
         LET path == Join(Config.CheatSheetsDir, Filename(cmd))
             e == plainRun(o)
             c == Call("editLocalCheatSheet", "editor", <<path>>, "", e, o)
         IN  /\ content' = IF saved /\ o.started /\ localOk
                           THEN [content EXCEPT ![Filename(cmd)] = "edited"]
                           ELSE content
             /\ calls' = Append(calls, c)
             /\ IF EditorThen(e) = "done"
                THEN /\ pc' = "done"
                     /\ err' = e
                     /\ stdout' = Append(stdout, "error ocurred")
                ELSE /\ pc' = "find"
                     /\ UNCHANGED <<err, stdout>>
    /\ UNCHANGED <<rawEmpty, fs, cmd, localOk, cache>>

Next ==
    \/ ParseError
    \/ CreatePanic
    \/ ConfigError
    \/ Exec
    \/ PrintHelp
    \/ PrintVersion
    \/ Update
    \/ Find
    \/ Edit
    \/ editLocalCheatSheet

Spec == Init /\ [][Next]_vars

\* ------------------------------------------------------------ properties
Idx == DOMAIN calls

LocalPath(c) == Join(CheatSheetsDir, Filename(c))

TldrIdx == {i \in Idx : calls[i].op = "tldr" /\ calls[i].by = "Find"}

FindAnswered ==
    \E i \in Idx : /\ calls[i].by = "Find"
                   /\ calls[i].op = "FindFileInDir"
                   /\ calls[i].err = NoErr

\* C1: a Find whose local lookup returned without error makes exactly one
\* external call: the render of localStore/Filename when the file is in the
\* local store, the find verb with the topic itself when it is not.
C1_FindOneVerb ==
    FindAnswered =>
        /\ Cardinality(TldrIdx) = 1
        /\ \A i \in TldrIdx :
             IF content[Filename(cmd)] # Absent
             THEN calls[i].args = <<"--render", LocalPath(cmd)>>
             ELSE calls[i].args = <<cmd.Arg>>

C1_Witness ==
    /\ FindAnswered
    /\ content[Filename(cmd)] = Absent
    /\ \E i \in TldrIdx : calls[i].args = <<cmd.Arg>>

\* the tokens joined by a hyphen
RECURSIVE JoinHyphen(_)
JoinHyphen(t) ==
    IF Len(t) = 0 THEN ""
    ELSE IF Len(t) = 1 THEN t[1]
    ELSE t[1] \o "-" \o JoinHyphen(Tail(t))

\* the topic tokens given on the command line
Topic == IF cmd.Cmd = "edit" THEN <<fs.e>> \o fs.args ELSE fs.args

TopicFile == JoinHyphen(Topic) \o ".md"

\* C2: every lookup, copy, edit and render of a find or an edit uses the
\* command line's topic tokens joined by a hyphen plus ".md".
C2_JoinedFilename ==
    cmd.Cmd \in {"find", "edit"} =>
        \A i \in Idx :
            /\ calls[i].op = "FindFileInDir" => calls[i].args[1] = TopicFile
            /\ calls[i].op = "FindFileInCache" => calls[i].args[1] = TopicFile
            /\ calls[i].op = "CopyFile" =>
                 calls[i].args[2] = Join(CheatSheetsDir, TopicFile)
            /\ calls[i].op = "editor" =>
                 calls[i].args[1] = Join(CheatSheetsDir, TopicFile)
            /\ (calls[i].op = "tldr" /\ Len(calls[i].args) = 2) =>
                 calls[i].args[2] = Join(CheatSheetsDir, TopicFile)

PageIdx == 1..Len(pages)

Holds(i, fn) == cache[pages[i]].status = "ok" /\ fn \in cache[pages[i]].files

CacheReadable == \A i \in PageIdx : cache[pages[i]].status # "unreadable"

\* C3: whatever directories of the cache exist, the Cache Locator returns
\* cacheBase/category for the first category holding the file, and the empty
\* string without an error when no category holds it.
C3_FirstCategory ==
    \A k \in Idx :
        (calls[k].op = "FindFileInCache" /\ CacheReadable) =>
            LET fn == calls[k].args[1]
                hit == {i \in PageIdx : Holds(i, fn)}
            IN  /\ calls[k].err = NoErr
                /\ IF hit = {} THEN calls[k].ret = ""
                   ELSE \E i \in hit :
                          /\ \A j \in hit : i <= j
                          /\ calls[k].ret = Join(TldrCachePath, pages[i])

Streaming(i) == calls[i].op = "tldr" /\ calls[i].by \in {"Find", "Update"}

\* C4: find, render and update return nil for exit code 3 and for exit code
\* 0, and report an error for any other exit code and for a spawn failure.
C4_ExitCode3 ==
    \A i \in Idx :
        Streaming(i) =>
            /\ (calls[i].oc.started /\ calls[i].oc.code \in {0, 3})
                  <=> calls[i].err = NoErr
            /\ err = calls[i].err
            /\ (calls[i].err # NoErr) =>
                  (pc = "done" /\ stdout = <<"error ocurred">>)

C4_Witness ==
    \E i \in Idx : /\ Streaming(i)
                   /\ calls[i].args[1] = "--render"
                   /\ calls[i].oc = [started |-> TRUE, code |-> 3]
                   /\ pc = "done"
                   /\ err = NoErr

\* the state of the directory a FindFileInDir call names
DirOf(i) ==
    IF calls[i].args[2] = CheatSheetsDir THEN LocalDir
    ELSE cache[PageOf(calls[i].args[2])]

\* C5: the lookup returns (false, no error) when directory/filename does not
\* exist, the directory itself included, (true, no error) when it exists, and
\* an error only for a failure other than non-existence.
C5_ExistsNoError ==
    \A i \in Idx :
        calls[i].op = "FindFileInDir" =>
            /\ DirOf(i).status # "unreadable" => calls[i].err = NoErr
            /\ (calls[i].by # "Edit" /\ DirOf(i).status # "unreadable") =>
                 calls[i].ret = Bool(calls[i].args[1] \in DirOf(i).files)

\* what Edit's own local lookup answered
EditLooked(ret) ==
    /\ Len(calls) > 0
    /\ calls[1].by = "Edit"
    /\ calls[1].op = "FindFileInDir"
    /\ calls[1].err = NoErr
    /\ calls[1].ret = ret

Located == {i \in Idx : calls[i].op = "FindFileInCache" /\ calls[i].err = NoErr
                        /\ calls[i].ret # ""}

OpIdx(op) == {i \in Idx : calls[i].op = op}

FindIdx == {i \in Idx : calls[i].by = "Find"}

\* C6: in an Edit of a file absent locally that the Cache Locator located,
\* cacheDir/Filename is copied to localStore/Filename, then the editor runs
\* on localStore/Filename, then Find runs, and only after the editor has
\* exited successfully; no editor before the copy is done, no Find after a
\* failed editor.
C6_CopyEditorFind ==
    (EditLooked("false") /\ Located # {}) =>
        /\ \A l \in Located :
             \E c \in OpIdx("CopyFile") :
                /\ c = l + 1
                /\ calls[c].args = <<Join(calls[l].ret, Filename(cmd)),
                                     LocalPath(cmd)>>
        /\ \A e \in OpIdx("editor") :
             /\ calls[e].args = <<LocalPath(cmd)>>
             /\ \E c \in OpIdx("CopyFile") :
                   c = e - 1 /\ calls[c].err = NoErr
        /\ \A f \in FindIdx :
             \E e \in OpIdx("editor") :
                /\ e < f
                /\ calls[e].err = NoErr
                /\ calls[e].oc = [started |-> TRUE, code |-> 0]
        /\ (\E e \in OpIdx("editor") : calls[e].err # NoErr) =>
             (FindIdx = {} /\ pc = "done")
        /\ (pc = "editor") <=>
             (OpIdx("editor") = {} /\
              \E c \in OpIdx("CopyFile") : calls[c].err = NoErr)
        /\ (pc = "find") <=>
             (FindIdx = {} /\ \E e \in OpIdx("editor") : calls[e].err = NoErr)

C6_Witness ==
    /\ EditLooked("false")
    /\ Located # {}
    /\ OpIdx("CopyFile") # {}
    /\ OpIdx("editor") # {}
    /\ FindIdx # {}
    /\ pc = "done"

\* C7: in an Edit of a file absent locally that no cache category holds,
\* nothing is copied, the tool creates no file in the local store, the
\* editor runs on localStore/Filename, and the miss does not fail the Edit.
C7_MissOpensEditor ==
    (EditLooked("false") /\ CacheReadable
       /\ \A i \in PageIdx : ~Holds(i, Filename(cmd))) =>
        /\ OpIdx("CopyFile") = {}
        /\ pc = "editor" \/ OpIdx("editor") # {}
        /\ pc = "editor" => content[Filename(cmd)] = Absent
        /\ \A e \in OpIdx("editor") : calls[e].args = <<LocalPath(cmd)>>

EditAbort(i) ==
    /\ calls[i].err # NoErr
    /\ \/ calls[i].op = "CopyFile"
       \/ calls[i].op = "FindFileInCache"
       \/ calls[i].op = "FindFileInDir" /\ calls[i].by = "Edit"

\* C8: a failed File Copy makes Edit return that error with neither the
\* editor nor Find invoked afterwards; an error of the local lookup or of
\* the Cache Locator ends Edit before any copy or editor invocation.
C8_CopyFailureAborts ==
    \A i \in Idx :
        EditAbort(i) =>
            /\ pc = "done"
            /\ err = calls[i].err
            /\ i = Len(calls)
            /\ OpIdx("editor") = {}
            /\ FindIdx = {}
            /\ calls[i].op # "CopyFile" => OpIdx("CopyFile") = {}

C8_Witness ==
    \E i \in Idx : /\ calls[i].op = "CopyFile"
                   /\ calls[i].err # NoErr
                   /\ err = calls[i].err
                   /\ pc = "done"

\* C9: a run with no arguments at all resolves to show-help or to a
\* reported parse error: it prints a message and exits normally, and runs no
\* find, edit or update.
C9_NoArgsHelp ==
    (rawEmpty /\ pc # "start") =>
        /\ pc \in {"help", "done"}
        /\ cmd.Cmd \in {"help", "none"}
        /\ pc = "done" => Len(stdout) > 0
        /\ calls = <<>>

\* C10: when localStore/Filename exists as Edit starts, the Cache Locator
\* is not consulted and File Copy is not invoked, so the editor opens the
\* file as it was; File Copy is invoked in Edit exactly when the file is
\* absent locally and a cache directory was located.
C10_NoOverwrite ==
    /\ EditLooked("true") =>
         /\ OpIdx("FindFileInCache") = {}
         /\ OpIdx("CopyFile") = {}
         /\ \A i \in Idx : calls[i].by # "FindFileInCache"
         /\ pc = "editor" => content[Filename(cmd)] = "personal"
    /\ (cmd.Cmd = "edit" /\ pc # "edit") =>
         (OpIdx("CopyFile") # {} <=> (EditLooked("false") /\ Located # {}))

C10_Witness ==
    /\ EditLooked("true")
    /\ pc = "editor"
    /\ \E i \in PageIdx : Holds(i, Filename(cmd))
    /\ content[Filename(cmd)] = "personal"

====
